---- MODULE Spec2Model ----
(***************************************************************************)
(* Model of the two optics tools of the repository:                        *)
(*   src/LensCalculator.py  (Lens, LensCalculator, main)                   *)
(*   src/LensSystem.py      (OpticalMaterial, LensSystem, RayTracer,       *)
(*                           OpticalSystemOptimizer, plot_system_analysis, *)
(*                           main)                                         *)
(*                                                                         *)
(* Numbers.  The code computes in binary floating point (Python float and  *)
(* numpy float64: round to nearest, ties to even, with inf and nan).  A    *)
(* number is modelled as a pair <<n, d>>: the dyadic rational n/d in       *)
(* lowest terms (d a power of two), or <<1,0>> = +inf, <<-1,0>> = -inf,    *)
(* <<0,0>> = nan.  Every arithmetic operation computes the exact result    *)
(* and rounds it to Prec significant bits the way the hardware does; the   *)
(* hardware keeps 53 bits, the model keeps Prec.  Exponent range is not    *)
(* modelled (no overflow to inf, no subnormals), and zero carries no sign: *)
(* a zero divisor is taken as +0.                                          *)
(***************************************************************************)
EXTENDS Integers, Sequences, FiniteSets, TLC

VARIABLES
    prog,           \* which program runs: "LensSystem", "LensCalculator", or "library" calls
    pc,             \* position of main(): the prompt or step that comes next
    status,         \* "running", "exited", or the name of the uncaught exception
    input,          \* the line main() read last from standard input
    printed,        \* the last message main() printed about its input
    fused,          \* whether the build's matrix product fuses multiply and add
    focal_lengths,  \* LensSystem.focal_lengths / main()'s focal_lengths
    distances,      \* LensSystem.distances / main()'s distances
    materials,      \* LensSystem.materials: sequence of [n0, dn_dT]
    temperature,    \* LensSystem.temperature
    f,              \* main()'s local f (both programs)
    n,              \* LensSystem.main()'s local n
    lens_type,      \* LensCalculator.main()'s local lens_type
    lenses,         \* LensCalculator.main()'s lenses: sequence of [focal_length, lens_type, diameter]
    call,           \* the last library call and its arguments
    result          \* what the last call returned (or the values main() computed)

vars == <<prog, pc, status, input, printed, fused, focal_lengths, distances, materials,
          temperature, f, n, lens_type, lenses, call, result>>

----------------------------------------------------------------------------
(* Bounds of the model *)

\* significant bits kept by an arithmetic operation (binary64 keeps 53)
Prec == 4
\* most lenses a session enters / a LensSystem holds
MaxLenses == 2
\* samples of the temperature sweep (the code takes 100)
SweepPoints == 3

----------------------------------------------------------------------------
(* Floating-point arithmetic *)

Zero == <<0, 1>>
One == <<1, 1>>
NegOne == <<-1, 1>>
PosInf == <<1, 0>>
NaN == <<0, 0>>

IsNaN(x) == x = NaN
IsInf(x) == x[2] = 0 /\ x[1] # 0
IsFinite(x) == x[2] # 0
Sign(x) == IF x[1] < 0 THEN -1 ELSE 1
Abs(k) == IF k < 0 THEN -k ELSE k

RECURSIVE Pow2(_)
Pow2(k) == IF k = 0 THEN 1 ELSE 2 * Pow2(k - 1)

\* n/d in lowest terms, for d a power of two
RECURSIVE Reduce(_, _)
Reduce(a, d) ==
    IF a = 0 THEN Zero
    ELSE IF a % 2 = 0 /\ d % 2 = 0 THEN Reduce(a \div 2, d \div 2)
    ELSE <<a, d>>

\* 2^Prec and 2^(Prec-1): the range of a Prec-bit significand
SigTop == Pow2(Prec)
SigLow == Pow2(Prec - 1)

\* <<a', d', k>> with a'/d' = (a/d) * 2^k and 2^(Prec-1) <= a'/d' < 2^Prec
RECURSIVE Scale(_, _, _)
Scale(a, d, k) ==
    IF a >= d * SigTop THEN Scale(a, 2 * d, k - 1)
    ELSE IF a < d * SigLow THEN Scale(2 * a, d, k + 1)
    ELSE <<a, d, k>>

\* a/d rounded to an integer, ties to even
RoundHalfEven(a, d) ==
    LET q == a \div d
        r == a % d
    IN IF 2 * r > d \/ (2 * r = d /\ q % 2 = 1) THEN q + 1 ELSE q

\* the significand of Scale's result s, rounded, times 2^-k
Rounded(s, sign) ==
    IF s[3] >= 0 THEN Reduce(sign * RoundHalfEven(s[1], s[2]), Pow2(s[3]))
    ELSE <<sign * RoundHalfEven(s[1], s[2]) * Pow2(-s[3]), 1>>

\* the float nearest to the rational a/d (d > 0); an integer of at most Prec
\* bits is a float already
fl(a, d) ==
    IF a = 0 THEN Zero
    ELSE IF d = 1 /\ Abs(a) < SigTop THEN <<a, 1>>
    ELSE Rounded(Scale(Abs(a), d, 0), IF a < 0 THEN -1 ELSE 1)

\* the float nearest to a/d for d a power of two: a numerator of at most Prec
\* bits needs no rounding
flDyadic(a, d) == IF Abs(a) < SigTop THEN Reduce(a, d) ELSE fl(a, d)

Neg(x) == <<-x[1], x[2]>>

Mul(x, y) ==
    IF x[2] # 0 /\ y[2] # 0 THEN flDyadic(x[1] * y[1], x[2] * y[2])
    ELSE IF IsNaN(x) \/ IsNaN(y) \/ x[1] = 0 \/ y[1] = 0 THEN NaN
    ELSE <<Sign(x) * Sign(y), 0>>

Add(x, y) ==
    IF x[2] # 0 /\ y[2] # 0 THEN flDyadic(x[1] * y[2] + y[1] * x[2], x[2] * y[2])
    ELSE IF IsNaN(x) \/ IsNaN(y) THEN NaN
    ELSE IF IsInf(x) /\ IsInf(y) THEN (IF x = y THEN x ELSE NaN)
    ELSE IF IsInf(x) THEN x
    ELSE y

Sub(x, y) == Add(x, Neg(y))

\* numpy's division: a zero divisor gives inf or nan (and a RuntimeWarning)
Div(x, y) ==
    IF x[2] # 0 /\ y[2] # 0 /\ y[1] # 0
    THEN fl(x[1] * y[2] * Sign(y), x[2] * Abs(y[1]))
    ELSE IF IsNaN(x) \/ IsNaN(y) THEN NaN
    ELSE IF IsInf(x) THEN (IF IsInf(y) THEN NaN ELSE <<Sign(x) * Sign(y), 0>>)
    ELSE IF IsInf(y) THEN Zero
    ELSE IF x[1] = 0 THEN NaN
    ELSE <<Sign(x), 0>>

\* a*b + acc rounded once (a fused multiply-add)
Fma(a, b, acc) ==
    IF a[2] # 0 /\ b[2] # 0 /\ acc[2] # 0
    THEN flDyadic(a[1] * b[1] * acc[2] + acc[1] * a[2] * b[2], a[2] * b[2] * acc[2])
    ELSE Add(Mul(a, b), acc)

\* the comparison ==: nan equals nothing
FEq(x, y) == ~IsNaN(x) /\ x = y


----------------------------------------------------------------------------
(* Build-dependent evaluation of a 2-term inner product *)

\* a*b + c*d as the matrix product's kernel computes it: each product rounded
\* and then added, or the second product fused into the sum
Dot(a, b, c, d) ==
    IF fused THEN Fma(c, d, Mul(a, b)) ELSE Add(Mul(a, b), Mul(c, d))

Eye == <<<<One, Zero>>, <<Zero, One>>>>

\* A @ B for 2x2 matrices
MatMul(A, B) ==
    << <<Dot(A[1][1], B[1][1], A[1][2], B[2][1]), Dot(A[1][1], B[1][2], A[1][2], B[2][2])>>,
       <<Dot(A[2][1], B[1][1], A[2][2], B[2][1]), Dot(A[2][1], B[1][2], A[2][2], B[2][2])>> >>

\* M @ ray for a 2x2 matrix and a 2-vector
MatVec(M, v) ==
    <<Dot(M[1][1], v[1], M[1][2], v[2]), Dot(M[2][1], v[1], M[2][2], v[2])>>

\* a call's outcome: the value returned, or the exception raised
Return(v) == [err |-> "none", val |-> v]
Raise(e) == [err |-> e, val |-> <<>>]

----------------------------------------------------------------------------
(* OpticalMaterial and LensSystem *)

reference_temp == <<20, 1>>

\* a faulty variant: the index at the reference temperature, whatever T is
get_n_AtReference(mat, T) == mat.n0

\* OpticalMaterial.get_n
get_n(mat, T) == Add(mat.n0, Mul(mat.dn_dT, Sub(T, reference_temp)))

\* the propagation matrix of loop index i (1-based)
Propagation(ds, i) ==
    IF i <= Len(ds) THEN <<<<One, ds[i]>>, <<Zero, One>>>> ELSE Eye

\* the thin lens matrix for the product fn = f*n
ThinLens(fn) == <<<<One, Zero>>, <<Div(NegOne, fn), One>>>>

\* a faulty variant: the lens applied before the propagation
LoopBodyLensFirst(M, P, L) == MatMul(MatMul(M, L), P)

\* one pass of the loop body: M @ P @ L
LoopBody(M, P, L) == MatMul(MatMul(M, P), L)

\* the loop of LensSystem.transfer_matrix from index i on
RECURSIVE TransferLoop(_, _, _, _, _, _)
TransferLoop(M, i, fs, ds, ms, T) ==
    IF i > Len(fs) THEN Return(M)
    ELSE IF i > Len(ms) THEN Raise("IndexError")
    ELSE LET fn == Mul(fs[i], get_n(ms[i], T))
         IN IF fn = Zero THEN Raise("ZeroDivisionError")
            ELSE TransferLoop(LoopBody(M, Propagation(ds, i), ThinLens(fn)),
                              i + 1, fs, ds, ms, T)

\* LensSystem.transfer_matrix on a system (fs, ds, ms, T)
transfer_matrix(fs, ds, ms, T) == TransferLoop(Eye, 1, fs, ds, ms, T)

\* the effective focal length read off a matrix: -1/M[1,0]
EffectiveFocal(M) == Div(NegOne, M[2][1])

----------------------------------------------------------------------------
(* RayTracer and OpticalSystemOptimizer *)

\* the loop of RayTracer.trace_ray over the distances from index i on
RECURSIVE TraceLoop(_, _, _, _, _)
TraceLoop(positions, z, y, ds, i) ==
    IF i > Len(ds) THEN positions
    ELSE TraceLoop(Append(positions, <<Add(z, ds[i]), y>>), Add(z, ds[i]), y, ds, i + 1)

\* a faulty variant: the positions report the entry height
trace_ray_EntryHeight(tm, ds, y0, theta0) ==
    IF tm.err # "none" THEN tm
    ELSE Return(TraceLoop(<< <<Zero, y0>> >>, Zero, y0, ds, 1))

\* RayTracer.trace_ray, given the outcome tm of its call of transfer_matrix()
trace_ray(tm, ds, y0, theta0) ==
    IF tm.err # "none" THEN tm
    ELSE Return(TraceLoop(<< <<Zero, y0>> >>, Zero, MatVec(tm.val, <<y0, theta0>>)[1], ds, 1))

\* the list comprehension [d * scale for d in distances]
Rescale(ds, scale) == [i \in 1..Len(ds) |-> Mul(ds[i], scale)]

\* a faulty variant: the ratio taken the other way round
ScaleFactorInverted(target_f, current_f) == Div(current_f, target_f)

\* the scale factor target_f/current_f
ScaleFactor(target_f, current_f) == Div(target_f, current_f)

\* OpticalSystemOptimizer.optimize_focal_length, given the outcome tm of its
\* call of transfer_matrix()
optimize_focal_length(tm, ds, target_f) ==
    IF tm.err # "none" THEN tm
    ELSE Return(Rescale(ds, ScaleFactor(target_f, EffectiveFocal(tm.val))))

----------------------------------------------------------------------------
(* Lens and LensCalculator *)

\* the values of the LensType enumeration
LensType == {"converging", "diverging", "achromatic", "fresnel"}

\* Lens.__init__
Lens(focal_length, type, diameter) ==
    [focal_length |-> focal_length, lens_type |-> type, diameter |-> diameter]

\* Python's division of floats: a zero divisor raises
PyDiv(x, y) == IF y = Zero THEN Raise("ZeroDivisionError") ELSE Return(Div(x, y))

\* sum(1/lens.focal_length for lens in lenses) from index i on, acc so far
RECURSIVE SumPowers(_, _, _)
SumPowers(ls, i, acc) ==
    IF i > Len(ls) THEN Return(acc)
    ELSE LET power == PyDiv(One, ls[i].focal_length)
         IN IF power.err # "none" THEN power
            ELSE SumPowers(ls, i + 1, Add(acc, power.val))

\* a faulty variant: a zero total power gives 0, like the empty list
FromPowerZero(total_power) == IF total_power # Zero THEN Div(One, total_power) ELSE Zero

\* the value returned for a total power
FromPower(total_power) == IF total_power # Zero THEN Div(One, total_power) ELSE PosInf

\* the result for an empty list
SeriesOfNone == Zero

\* LensCalculator.series_focal_length
series_focal_length(ls) ==
    IF ls = <<>> THEN Return(SeriesOfNone)
    ELSE LET total_power == SumPowers(ls, 1, Zero)
         IN IF total_power.err # "none" THEN total_power
            ELSE Return(FromPower(total_power.val))

\* sum(lens.focal_length for lens in lenses) from index i on, acc so far
RECURSIVE SumFocal(_, _, _)
SumFocal(ls, i, acc) ==
    IF i > Len(ls) THEN acc ELSE SumFocal(ls, i + 1, Add(acc, ls[i].focal_length))

\* LensCalculator.parallel_focal_length
parallel_focal_length(ls) == Return(SumFocal(ls, 1, Zero))

\* the arithmetic of LensCalculator.draw_ray_diagram: image distance and
\* magnification (the drawing itself changes no state)
draw_ray_diagram(lens, object_distance) ==
    LET image_distance == PyDiv(Mul(object_distance, lens.focal_length),
                                Sub(object_distance, lens.focal_length))
    IN IF image_distance.err # "none" THEN image_distance
       ELSE LET magnification == PyDiv(Neg(image_distance.val), object_distance)
            IN IF magnification.err # "none" THEN magnification
               ELSE Return(<<image_distance.val, magnification.val>>)

----------------------------------------------------------------------------
(* Library use of LensSystem, RayTracer and OpticalSystemOptimizer: a system *)
(* is constructed and its methods are called in any order.                   *)

\* all sequences over S with lo..hi entries
SeqsOf(S, lo, hi) == UNION {[1..k -> S] : k \in lo..hi}

Call(op, args) == [op |-> op, args |-> args]
NoCall == Call("none", <<>>)

FocalValues == {<<2, 1>>, <<15, 1>>}
DistanceValues == {<<1, 1>>, <<3, 1>>}
MaterialValues == {[n0 |-> One, dn_dT |-> Zero], [n0 |-> <<3, 2>>, dn_dT |-> <<1, 8>>]}
TemperatureValues == {<<20, 1>>, <<40, 1>>}
TargetValues == {<<2, 1>>, <<4, 1>>}
RayValues == {<<One, Zero>>, <<NegOne, <<1, 2>>>>}

\* LensSystem.__init__ on lists of matching lengths for lenses and materials,
\* and any number of distances
InitSystem ==
    /\ prog = "library"
    /\ pc = "call"
    /\ status = "running"
    /\ input = ""
    /\ printed = ""
    /\ fused \in BOOLEAN
    /\ focal_lengths \in SeqsOf(FocalValues, 1, MaxLenses)
    /\ distances \in SeqsOf(DistanceValues, 0, MaxLenses)
    /\ materials \in [1..Len(focal_lengths) -> MaterialValues]
    /\ temperature = reference_temp
    /\ f = Zero
    /\ n = Zero
    /\ lens_type = ""
    /\ lenses = <<>>
    /\ call = NoCall
    /\ result = Return(<<>>)

\* lens_system.temperature = T
SetTemperature(T) ==
    /\ prog = "library"
    /\ temperature' = T
    /\ call' = Call("set_temperature", <<T>>)
    /\ result' = Return(<<>>)
    /\ UNCHANGED <<prog, pc, status, input, printed, fused, focal_lengths, distances,
                   materials, f, n, lens_type, lenses>>

\* M = lens_system.transfer_matrix(), with outcome tm
CallTransferMatrix(tm) ==
    /\ call' = Call("transfer_matrix", <<>>)
    /\ result' = tm
    /\ UNCHANGED <<prog, pc, status, input, printed, fused, focal_lengths, distances,
                   materials, temperature, f, n, lens_type, lenses>>

\* RayTracer(lens_system).trace_ray(y0, theta0)
CallTraceRay(tm, y0, theta0) ==
    /\ call' = Call("trace_ray", <<y0, theta0>>)
    /\ result' = trace_ray(tm, distances, y0, theta0)
    /\ UNCHANGED <<prog, pc, status, input, printed, fused, focal_lengths, distances,
                   materials, temperature, f, n, lens_type, lenses>>

\* OpticalSystemOptimizer(lens_system).optimize_focal_length(target_f)
CallOptimize(tm, target_f) ==
    /\ call' = Call("optimize_focal_length", <<target_f>>)
    /\ result' = optimize_focal_length(tm, distances, target_f)
    /\ UNCHANGED <<prog, pc, status, input, printed, fused, focal_lengths, distances,
                   materials, temperature, f, n, lens_type, lenses>>

\* a method call: each of the three starts from transfer_matrix() on the
\* system as it is now
CallMethod ==
    /\ prog = "library"
    /\ \E tm \in {transfer_matrix(focal_lengths, distances, materials, temperature)} :
          \/ CallTransferMatrix(tm)
          \/ \E ray \in RayValues : CallTraceRay(tm, ray[1], ray[2])
          \/ \E target_f \in TargetValues : CallOptimize(tm, target_f)

NextSystem ==
    \/ \E T \in TemperatureValues : SetTemperature(T)
    \/ CallMethod

SpecSystem == InitSystem /\ [][NextSystem]_vars

----------------------------------------------------------------------------
(* Library use of LensCalculator on an arbitrary list of lenses *)

LensFocalValues == {<<2, 1>>, <<-2, 1>>, <<4, 1>>, <<15, 1>>}
LensValues == {Lens(fv, t, <<5, 1>>) : fv \in LensFocalValues, t \in {"converging", "diverging"}}

InitCalculator ==
    /\ prog = "library"
    /\ pc = "call"
    /\ status = "running"
    /\ input = ""
    /\ printed = ""
    /\ fused = FALSE
    /\ focal_lengths = <<>>
    /\ distances = <<>>
    /\ materials = <<>>
    /\ temperature = reference_temp
    /\ f = Zero
    /\ n = Zero
    /\ lens_type = ""
    /\ lenses \in SeqsOf(LensValues, 0, MaxLenses)
    /\ call = NoCall
    /\ result = Return(<<>>)

\* calculator.series_focal_length(lenses)
CallSeries ==
    /\ call' = Call("series_focal_length", <<>>)
    /\ result' = series_focal_length(lenses)
    /\ UNCHANGED <<prog, pc, status, input, printed, fused, focal_lengths, distances,
                   materials, temperature, f, n, lens_type, lenses>>

\* calculator.parallel_focal_length(lenses)
CallParallel ==
    /\ call' = Call("parallel_focal_length", <<>>)
    /\ result' = parallel_focal_length(lenses)
    /\ UNCHANGED <<prog, pc, status, input, printed, fused, focal_lengths, distances,
                   materials, temperature, f, n, lens_type, lenses>>

NextCalculator == CallSeries \/ CallParallel

SpecCalculator == InitCalculator /\ [][NextCalculator]_vars

----------------------------------------------------------------------------
(* Standard input: the lines a user may type, and float() *)

\* the decimal strings of the model and the rationals they denote
NumericStrings == {"0", "1", "2", "3", "4", "5", "15", "-2", "125000"}
Denotes(s) ==
    CASE s = "0" -> <<0, 1>>
      [] s = "1" -> <<1, 1>>
      [] s = "2" -> <<2, 1>>
      [] s = "3" -> <<3, 1>>
      [] s = "4" -> <<4, 1>>
      [] s = "5" -> <<5, 1>>
      [] s = "15" -> <<15, 1>>
      [] s = "-2" -> <<-2, 1>>
      [] s = "125000" -> <<125000, 1>>

\* float(s): the nearest float, or ValueError for a line that is no number
\* (the empty line included)
float(s) ==
    IF s \in NumericStrings THEN Return(fl(Denotes(s)[1], Denotes(s)[2]))
    ELSE Raise("ValueError")

\* float(input(...) or default)
FloatOr(s, default) == IF s = "" THEN Return(default) ELSE float(s)

\* str.lower() on the lens type strings of the model
Lower(s) ==
    CASE s = "Diverging" -> "diverging"
      [] s = "FRESNEL" -> "fresnel"
      [] OTHER -> s

\* the literal 1e-6
Micro == fl(1, 1000000)

InvalidNumbers == "Please enter valid numbers."
InvalidType == "Invalid lens type. Using converging lens."
NoLenses == "No lenses entered. Exiting."

----------------------------------------------------------------------------
(* LensSystem.py: main() and plot_system_analysis *)

SysFocalInputs == {"0", "2", "15", "abc", ""}
SysDistanceInputs == {"3", "abc", ""}
SysIndexInputs == {"", "1", "abc"}
SysDnDtInputs == {"", "0", "125000", "abc"}
SysTargetInputs == {"4", "abc"}

\* what main() has computed so far
NoAnalysis ==
    [M |-> Eye, f_eff |-> Zero, focal_shifts |-> <<>>, current_f |-> Zero,
     optimized_distances |-> <<>>]

\* np.linspace(start, stop, num), num >= 2
Linspace(start, stop, num) ==
    LET step == Div(Sub(stop, start), fl(num - 1, 1))
    IN [i \in 1..num |-> IF i = num THEN stop ELSE Add(Mul(fl(i - 1, 1), step), start)]

\* the temperatures of the sweep: np.linspace(0, 40, 100)
SweepTemps == Linspace(Zero, <<40, 1>>, SweepPoints)

\* the sweep of plot_system_analysis from sample i on: the temperature is
\* assigned, the matrix recomputed and the focal length recorded
RECURSIVE SweepLoop(_, _, _, _, _, _)
SweepLoop(fs, ds, ms, T, i, focal_shifts) ==
    IF i > Len(SweepTemps)
    THEN [err |-> "none", temperature |-> T, focal_shifts |-> focal_shifts]
    ELSE LET tm == transfer_matrix(fs, ds, ms, SweepTemps[i])
         IN IF tm.err # "none"
            THEN [err |-> tm.err, temperature |-> SweepTemps[i], focal_shifts |-> focal_shifts]
            ELSE SweepLoop(fs, ds, ms, SweepTemps[i], i + 1,
                           Append(focal_shifts, EffectiveFocal(tm.val)))

\* the focal length prompt of the input loop
SysEnterFocal(s) ==
    /\ prog = "LensSystem" /\ status = "running" /\ pc = "focal"
    /\ input' = s
    /\ IF float(s).err # "none"
       THEN /\ printed' = InvalidNumbers
            /\ UNCHANGED <<pc, status, focal_lengths, f>>
       ELSE IF float(s).val = Zero
       THEN /\ f' = Zero
            /\ UNCHANGED focal_lengths
            /\ IF focal_lengths = <<>>
               THEN printed' = NoLenses /\ status' = "exited" /\ pc' = "done"
               ELSE printed' = "" /\ status' = status /\ pc' = "analyze"
       ELSE /\ Len(focal_lengths) < MaxLenses
            /\ f' = float(s).val
            /\ focal_lengths' = Append(focal_lengths, float(s).val)
            /\ pc' = IF Len(focal_lengths) + 1 > 1 THEN "distance" ELSE "index"
            /\ printed' = ""
            /\ UNCHANGED status
    /\ UNCHANGED <<prog, fused, distances, materials, temperature, n, lens_type,
                   lenses, call, result>>

\* the distance prompt
SysEnterDistance(s) ==
    /\ prog = "LensSystem" /\ status = "running" /\ pc = "distance"
    /\ input' = s
    /\ IF float(s).err # "none"
       THEN printed' = InvalidNumbers /\ pc' = "focal" /\ UNCHANGED distances
       ELSE printed' = "" /\ pc' = "index" /\ distances' = Append(distances, float(s).val)
    /\ UNCHANGED <<prog, status, fused, focal_lengths, materials, temperature, f, n,
                   lens_type, lenses, call, result>>

\* the refractive index prompt (default 1.5)
SysEnterIndex(s) ==
    /\ prog = "LensSystem" /\ status = "running" /\ pc = "index"
    /\ input' = s
    /\ IF FloatOr(s, <<3, 2>>).err # "none"
       THEN printed' = InvalidNumbers /\ pc' = "focal" /\ UNCHANGED n
       ELSE printed' = "" /\ pc' = "dn_dt" /\ n' = FloatOr(s, <<3, 2>>).val
    /\ UNCHANGED <<prog, status, fused, focal_lengths, distances, materials, temperature,
                   f, lens_type, lenses, call, result>>

\* the dn/dT prompt (default 1.0, in units of 1e-6), then materials.append
SysEnterDnDt(s) ==
    /\ prog = "LensSystem" /\ status = "running" /\ pc = "dn_dt"
    /\ input' = s
    /\ IF FloatOr(s, One).err # "none"
       THEN printed' = InvalidNumbers /\ UNCHANGED materials
       ELSE /\ printed' = ""
            /\ materials' = Append(materials,
                                   [n0 |-> n, dn_dT |-> Mul(FloatOr(s, One).val, Micro)])
    /\ pc' = "focal"
    /\ UNCHANGED <<prog, status, fused, focal_lengths, distances, temperature, f, n,
                   lens_type, lenses, call, result>>

\* LensSystem(...) is constructed; M = system.transfer_matrix(); f_eff = -1/M[1,0]
SysAnalyze ==
    /\ prog = "LensSystem" /\ status = "running" /\ pc = "analyze"
    /\ \E tm \in {transfer_matrix(focal_lengths, distances, materials, reference_temp)} :
          IF tm.err # "none"
          THEN status' = tm.err /\ pc' = "done" /\ UNCHANGED result
          ELSE /\ result' = Return([NoAnalysis EXCEPT !.M = tm.val,
                                                       !.f_eff = EffectiveFocal(tm.val)])
               /\ pc' = "plot"
               /\ UNCHANGED status
    /\ temperature' = reference_temp
    /\ UNCHANGED <<prog, input, printed, fused, focal_lengths, distances, materials,
                   f, n, lens_type, lenses, call>>

\* plot_system_analysis(system, wave): of its four plots only the temperature
\* sweep writes to the system
SysPlot ==
    /\ prog = "LensSystem" /\ status = "running" /\ pc = "plot"
    /\ \E sweep \in {SweepLoop(focal_lengths, distances, materials, temperature, 1, <<>>)} :
          /\ temperature' = sweep.temperature
          /\ result' = Return([result.val EXCEPT !.focal_shifts = sweep.focal_shifts])
          /\ IF sweep.err # "none"
             THEN status' = sweep.err /\ pc' = "done"
             ELSE status' = status /\ pc' = "target"
    /\ UNCHANGED <<prog, input, printed, fused, focal_lengths, distances, materials,
                   f, n, lens_type, lenses, call>>

\* the target focal length prompt and OpticalSystemOptimizer.optimize_focal_length
SysEnterTarget(s) ==
    /\ prog = "LensSystem" /\ status = "running" /\ pc = "target"
    /\ input' = s
    /\ pc' = "done"
    /\ IF float(s).err # "none"
       THEN status' = float(s).err /\ UNCHANGED result
       ELSE \E tm \in {transfer_matrix(focal_lengths, distances, materials, temperature)} :
               IF tm.err # "none"
               THEN status' = tm.err /\ UNCHANGED result
               ELSE /\ status' = "exited"
                    /\ result' = Return([result.val EXCEPT
                          !.current_f = EffectiveFocal(tm.val),
                          !.optimized_distances =
                              optimize_focal_length(tm, distances, float(s).val).val])
    /\ UNCHANGED <<prog, printed, fused, focal_lengths, distances, materials, temperature,
                   f, n, lens_type, lenses, call>>

NextLensSystem ==
    \/ \E s \in SysFocalInputs : SysEnterFocal(s)
    \/ \E s \in SysDistanceInputs : SysEnterDistance(s)
    \/ \E s \in SysIndexInputs : SysEnterIndex(s)
    \/ \E s \in SysDnDtInputs : SysEnterDnDt(s)
    \/ SysAnalyze
    \/ SysPlot
    \/ \E s \in SysTargetInputs : SysEnterTarget(s)

----------------------------------------------------------------------------
(* LensCalculator.py: main() *)

CalcFocalInputs == {"0", "2", "-2", "15", "abc", ""}
CalcTypeInputs == {"converging", "Diverging", "concave", ""}
CalcDiameterInputs == {"", "3", "abc"}
CalcObjectInputs == {"4", "2", "0", "abc"}

\* what main() has computed so far
NoResults == [series_f |-> Zero, parallel_f |-> Zero, image |-> <<>>]

\* the focal length prompt of the input loop; on 0 the loop ends and the
\* combined focal lengths are computed
CalcEnterFocal(s) ==
    /\ prog = "LensCalculator" /\ status = "running" /\ pc = "focal"
    /\ input' = s
    /\ IF float(s).err # "none"
       THEN /\ printed' = InvalidNumbers
            /\ UNCHANGED <<pc, status, f, result>>
       ELSE IF float(s).val = Zero
       THEN /\ f' = Zero
            /\ IF lenses = <<>>
               THEN /\ printed' = NoLenses /\ status' = "exited" /\ pc' = "done"
                    /\ UNCHANGED result
               ELSE /\ printed' = ""
                    /\ \E series \in {series_focal_length(lenses)} :
                          IF series.err # "none"
                          THEN status' = series.err /\ pc' = "done" /\ UNCHANGED result
                          ELSE /\ result' = Return([NoResults EXCEPT
                                      !.series_f = series.val,
                                      !.parallel_f = parallel_focal_length(lenses).val])
                               /\ pc' = "object"
                               /\ UNCHANGED status
       ELSE /\ Len(lenses) < MaxLenses
            /\ f' = float(s).val
            /\ pc' = "type"
            /\ printed' = ""
            /\ UNCHANGED <<status, result>>
    /\ UNCHANGED <<prog, fused, focal_lengths, distances, materials, temperature, n,
                   lens_type, lenses, call>>

\* a faulty variant: the ValueError of LensType(...) reaches the handler of the
\* loop and the lens is dropped
CalcEnterTypeRejecting(s) ==
    /\ prog = "LensCalculator" /\ status = "running" /\ pc = "type"
    /\ input' = s
    /\ IF Lower(s) \in LensType
       THEN lens_type' = Lower(s) /\ printed' = "" /\ pc' = "diameter"
       ELSE lens_type' = lens_type /\ printed' = InvalidNumbers /\ pc' = "focal"
    /\ UNCHANGED <<prog, status, fused, focal_lengths, distances, materials, temperature,
                   f, n, lenses, call, result>>

\* the lens type prompt: LensType(input().lower()), or converging with a warning
CalcEnterType(s) ==
    /\ prog = "LensCalculator" /\ status = "running" /\ pc = "type"
    /\ input' = s
    /\ IF Lower(s) \in LensType
       THEN lens_type' = Lower(s) /\ printed' = ""
       ELSE lens_type' = "converging" /\ printed' = InvalidType
    /\ pc' = "diameter"
    /\ UNCHANGED <<prog, status, fused, focal_lengths, distances, materials, temperature,
                   f, n, lenses, call, result>>

\* the diameter prompt (default 5.0), then lenses.append(Lens(f, lens_type, diameter))
\* and the aberration report, which changes no state
CalcEnterDiameter(s) ==
    /\ prog = "LensCalculator" /\ status = "running" /\ pc = "diameter"
    /\ input' = s
    /\ IF FloatOr(s, <<5, 1>>).err # "none"
       THEN printed' = InvalidNumbers /\ UNCHANGED lenses
       ELSE /\ printed' = ""
            /\ lenses' = Append(lenses, Lens(f, lens_type, FloatOr(s, <<5, 1>>).val))
    /\ pc' = "focal"
    /\ UNCHANGED <<prog, status, fused, focal_lengths, distances, materials, temperature,
                   f, n, lens_type, call, result>>

\* the object distance prompt and draw_ray_diagram(lenses[0], object_distance)
CalcEnterObject(s) ==
    /\ prog = "LensCalculator" /\ status = "running" /\ pc = "object"
    /\ input' = s
    /\ pc' = "done"
    /\ IF float(s).err # "none"
       THEN status' = float(s).err /\ UNCHANGED result
       ELSE \E drawn \in {draw_ray_diagram(lenses[1], float(s).val)} :
               IF drawn.err # "none"
               THEN status' = drawn.err /\ UNCHANGED result
               ELSE /\ status' = "exited"
                    /\ result' = Return([result.val EXCEPT !.image = drawn.val])
    /\ UNCHANGED <<prog, printed, fused, focal_lengths, distances, materials, temperature,
                   f, n, lens_type, lenses, call>>

NextLensCalculator ==
    \/ \E s \in CalcFocalInputs : CalcEnterFocal(s)
    \/ \E s \in CalcTypeInputs : CalcEnterType(s)
    \/ \E s \in CalcDiameterInputs : CalcEnterDiameter(s)
    \/ \E s \in CalcObjectInputs : CalcEnterObject(s)

----------------------------------------------------------------------------
(* The two programs, each started with nothing entered yet *)

Init ==
    /\ prog \in {"LensSystem", "LensCalculator"}
    /\ pc = "focal"
    /\ status = "running"
    /\ input = ""
    /\ printed = ""
    /\ fused \in (IF prog = "LensSystem" THEN BOOLEAN ELSE {FALSE})
    /\ focal_lengths = <<>>
    /\ distances = <<>>
    /\ materials = <<>>
    /\ temperature = reference_temp
    /\ f = Zero
    /\ n = Zero
    /\ lens_type = ""
    /\ lenses = <<>>
    /\ call = NoCall
    /\ result = Return(IF prog = "LensSystem" THEN NoAnalysis ELSE NoResults)

Next == NextLensSystem \/ NextLensCalculator

Spec == Init /\ [][Next]_vars

----------------------------------------------------------------------------
(* Notions the properties are stated with *)

\* |x - y| <= |y| * 2^(2 - Prec): x is y up to the rounding of two operations
WithinRounding(x, y) ==
    /\ IsFinite(x) /\ IsFinite(y)
    /\ Abs(x[1] * y[2] - y[1] * x[2]) * Pow2(Prec - 2) <= Abs(y[1]) * x[2]

\* x is plus or minus a power of two
IsPowerOfTwo(x) ==
    IsFinite(x) /\ (Abs(x[1]) = 1 \/ (x[2] = 1 /\ \E k \in 0..Prec : Abs(x[1]) = Pow2(k)))

\* the system as it is now, and its matrix
NowMatrix == transfer_matrix(focal_lengths, distances, materials, temperature)

\* the matrix of the system with its distances replaced by ds
MatrixWith(ds) == transfer_matrix(focal_lengths, ds, materials, temperature)

\* the factors P_0, L_0, P_1, L_1, ... of the claimed product, at the current
\* temperature
Factor(j) ==
    LET i == (j + 1) \div 2
        n_i == Add(materials[i].n0,
                   Mul(materials[i].dn_dT, Sub(temperature, <<20, 1>>)))
    IN IF j % 2 = 1
       THEN (IF i <= Len(distances) THEN <<<<One, distances[i]>>, <<Zero, One>>>>
             ELSE <<<<One, Zero>>, <<Zero, One>>>>)
       ELSE <<<<One, Zero>>, <<Div(NegOne, Mul(focal_lengths[i], n_i)), One>>>>

\* the product of the first j factors, taken from the identity, left to right
RECURSIVE ProductTo(_)
ProductTo(j) == IF j = 0 THEN Eye ELSE MatMul(ProductTo(j - 1), Factor(j))

\* one lens, no distances, a material with n0 = 1 and dn_dT = 0
SingleIdealLens ==
    /\ Len(focal_lengths) = 1
    /\ distances = <<>>
    /\ materials = <<[n0 |-> One, dn_dT |-> Zero]>>

\* the sum of the first k entries of ds, added left to right
RECURSIVE SumFirst(_, _)
SumFirst(ds, k) == IF k = 0 THEN Zero ELSE Add(SumFirst(ds, k - 1), ds[k])

\* the sum of the reciprocals of the first k focal lengths, added left to right
RECURSIVE PowerTo(_)
PowerTo(k) == IF k = 0 THEN Zero ELSE Add(PowerTo(k - 1), Div(One, lenses[k].focal_length))

----------------------------------------------------------------------------
(* Properties *)

\* C3: the distances optimize_focal_length(target_f) returns give the target:
\* for a system with non-zero M[1][0], the matrix recomputed with the returned
\* distances has -1/M[1][0] == target_f.
C3_OptimizerReachesTarget ==
    (/\ call.op = "optimize_focal_length"
     /\ result.err = "none"
     /\ NowMatrix.val[2][1] # Zero)
    => FEq(EffectiveFocal(MatrixWith(result.val).val), call.args[1])

C10_TraceRay ==
    [][(call'.op = "trace_ray" /\ result'.err = "none")
       => LET y0 == call'.args[1]
              theta0 == call'.args[2]
              M == NowMatrix.val
              height == IF fused
                        THEN Fma(M[1][2], theta0, Mul(M[1][1], y0))
                        ELSE Add(Mul(M[1][1], y0), Mul(M[1][2], theta0))
          IN /\ Len(result'.val) = Len(distances) + 1
             /\ result'.val[1] = <<Zero, y0>>
             /\ \A k \in 1..Len(distances) :
                   result'.val[k + 1] = <<SumFirst(distances, k), height>>
             /\ UNCHANGED <<focal_lengths, distances, materials, temperature>>]_vars

\* C10 happens: a ray was traced through a system with two unequal distances
\* and left at another height than it entered
C10_Witness ==
    /\ call.op = "trace_ray"
    /\ result.err = "none"
    /\ Len(distances) >= 2
    /\ distances[1] # distances[2]
    /\ result.val[3][2] # call.args[1]

C1_ListsAligned ==
    (prog = "LensSystem" /\ pc = "analyze")
    => /\ Len(materials) = Len(focal_lengths)
       /\ Len(distances) = Len(focal_lengths) - 1
       /\ transfer_matrix(focal_lengths, distances, materials, reference_temp).err
             # "IndexError"

\* C2: in both programs a line that is no number, entered at any numeric
\* prompt, is caught and the session continues: the program never ends in the
\* ValueError of float().
C2_NonNumericIsCaught == status # "ValueError"

\* C7: in the input loop of LensCalculator.py an unrecognized lens type does
\* not reject the lens: the warning is printed, the type becomes converging,
\* the diameter prompt follows and, on a valid diameter, exactly one lens with
\* the entered focal length and type converging is appended; a recognized
\* type gives a lens of that type.
C7_TypeFallback ==
    [][(prog = "LensCalculator" /\ status = "running")
       => /\ (pc = "focal" /\ pc' = "type") => f' = float(input').val
          /\ pc = "type" =>
                /\ pc' = "diameter" /\ status' = "running"
                /\ f' = f /\ lenses' = lenses
                /\ IF Lower(input') \in {"converging", "diverging", "achromatic", "fresnel"}
                   THEN lens_type' = Lower(input') /\ printed' # InvalidType
                   ELSE lens_type' = "converging" /\ printed' = InvalidType
          /\ pc = "diameter" =>
                IF input' = "" \/ input' \in NumericStrings
                THEN /\ Len(lenses') = Len(lenses) + 1
                     /\ SubSeq(lenses', 1, Len(lenses)) = lenses
                     /\ lenses'[Len(lenses')].focal_length = f
                     /\ lenses'[Len(lenses')].lens_type = lens_type
                ELSE lenses' = lenses
          /\ pc # "diameter" => lenses' = lenses]_vars

\* C7 happens: a second lens is being entered, its type was not recognized,
\* and the program is at the diameter prompt with the warning printed
C7_Witness ==
    /\ prog = "LensCalculator"
    /\ pc = "diameter"
    /\ Len(lenses) = 1
    /\ input = "concave"
    /\ printed = InvalidType
    /\ lens_type = "converging"

\* C8: in main() of LensSystem.py the effective focal length printed is the
\* value the optimizer uses as current_f, the temperature transfer_matrix()
\* reads being the same at the readout and at the call of
\* optimize_focal_length.
C8_ReadoutIsOptimizerValue ==
    (prog = "LensSystem" /\ status = "exited" /\ focal_lengths # <<>>)
    => /\ temperature = reference_temp
       /\ FEq(result.val.f_eff, result.val.current_f)

====
